---- MODULE Spec2Model ----
(***************************************************************************)
(* A model of kde_python_file_search.py: the mount enumerator              *)
(* (find_mounts_external), the traversal worker (SearchWorker.run), the    *)
(* main window's handlers (class MainWindow) and the terminal launcher     *)
(* (open_terminal_at, shutil_which).                                       *)
(*                                                                         *)
(* Python str values are TLA+ strings; the str methods the program uses    *)
(* (lower, strip, split, startswith, in) and the os.path functions         *)
(* (basename, dirname, join) are computed character by character.          *)
(***************************************************************************)
EXTENDS Integers, Sequences, FiniteSets, TLC

VARIABLES
    tree,                \* the file system: listable directory -> its os.scandir listing
    proc_mounts,         \* the lines of /proc/mounts
    custom_roots,        \* MainWindow.custom_roots
    include_external_cb, \* MainWindow.include_external_cb.isChecked()
    roots_label,         \* MainWindow.roots_label.text()
    result_list,         \* MainWindow.result_list: the item texts, in order
    status_label,        \* MainWindow.status_label.text()
    search_button,       \* MainWindow.search_button.isEnabled()
    stop_button,         \* MainWindow.stop_button.isEnabled()
    loader,              \* MainWindow.loader.isVisible()
    stop_event,          \* MainWindow._stop_event.is_set()
    worker,              \* MainWindow.worker: 0 for None, else the index of a thread
    threads,             \* every SearchWorker constructed so far, in order of construction
    queue,               \* the UI thread's event queue: queued signal deliveries
    result_run,          \* history: for each item of result_list, the run that emitted it
    stop_mark,           \* history: for each thread, the number of signals it had emitted
                         \* when the stop flag was set, -1 while the flag is not set
    mounts_out,          \* history: the last direct call of find_mounts_external
    which_ok,            \* the programs found executable on PATH
    spawned,             \* the argument lists of the processes started by Popen
    dialogs,             \* the QMessageBox.warning dialogs shown: <<title, text>>
    term_calls,          \* history: the number of calls of open_terminal_at
    launched,            \* history: for each process started, the folder it was started for
    escaped              \* history: whether an exception left open_terminal_at

fsVars   == <<tree, proc_mounts>>
rootVars == <<custom_roots, include_external_cb, roots_label>>
uiVars   == <<result_list, status_label, search_button, stop_button, loader,
              stop_event, worker, result_run, stop_mark>>
runVars  == <<threads, queue>>
termVars == <<which_ok, spawned, dialogs, term_calls, launched, escaped>>
vars     == <<fsVars, rootVars, uiVars, runVars, mounts_out, termVars>>

----------------------------------------------------------------------------
(* Python str operations *)

Char(s, i) == SubSeq(s, i, i)

UpperCase == "ABCDEFGHIJKLMNOPQRSTUVWXYZ"
LowerCase == "abcdefghijklmnopqrstuvwxyz"

\* printable ASCII characters in code point order (the order is all that is used)
Ascii == " !#$%&()*+,-./0123456789:;<=>?@" \o UpperCase \o "[]^_" \o LowerCase \o "{|}~"

Ord(c) == IF \E i \in 1..Len(Ascii) : Char(Ascii, i) = c
          THEN CHOOSE i \in 1..Len(Ascii) : Char(Ascii, i) = c
          ELSE 0

LowerChar(c) == IF \E i \in 1..Len(UpperCase) : Char(UpperCase, i) = c
                THEN Char(LowerCase, CHOOSE i \in 1..Len(UpperCase) : Char(UpperCase, i) = c)
                ELSE c

RECURSIVE lower(_)
lower(s) == IF Len(s) = 0 THEN "" ELSE LowerChar(Char(s, 1)) \o lower(Tail(s))

IsSpace(c) == c \in {" ", "\t", "\n"}

RECURSIVE lstrip(_)
lstrip(s) == IF Len(s) > 0 /\ IsSpace(Char(s, 1)) THEN lstrip(Tail(s)) ELSE s

RECURSIVE rstrip(_)
rstrip(s) == IF Len(s) > 0 /\ IsSpace(Char(s, Len(s)))
             THEN rstrip(SubSeq(s, 1, Len(s) - 1))
             ELSE s

strip(s) == rstrip(lstrip(s))

\* Python's k in s
str_in(k, s) == \E i \in 1..(Len(s) - Len(k) + 1) : SubSeq(s, i, i + Len(k) - 1) = k

startswith(s, p) == Len(s) >= Len(p) /\ SubSeq(s, 1, Len(p)) = p

\* the length of the leading run of non-whitespace characters of s
RECURSIVE WordLen(_)
WordLen(s) == IF Len(s) = 0 \/ IsSpace(Char(s, 1)) THEN 0 ELSE 1 + WordLen(Tail(s))

\* str.split() without arguments: the maximal runs of non-whitespace characters
RECURSIVE split(_)
split(s) ==
    LET t == lstrip(s)
        n == WordLen(t)
    IN  IF Len(t) = 0 THEN <<>>
        ELSE <<SubSeq(t, 1, n)>> \o split(SubSeq(t, n + 1, Len(t)))

\* a < b in Python's str order (code point by code point, a proper prefix first)
RECURSIVE StrLess(_, _)
StrLess(a, b) ==
    IF Len(b) = 0 THEN FALSE
    ELSE IF Len(a) = 0 THEN TRUE
    ELSE IF Char(a, 1) = Char(b, 1) THEN StrLess(Tail(a), Tail(b))
    ELSE Ord(Char(a, 1)) < Ord(Char(b, 1))

\* sorted(S) for a set of str
RECURSIVE sorted(_)
sorted(S) ==
    IF S = {} THEN <<>>
    ELSE LET m == CHOOSE x \in S : \A y \in S \ {x} : StrLess(x, y)
         IN  <<m>> \o sorted(S \ {m})

Range(q) == {q[i] : i \in 1..Len(q)}

\* sep.join(q)
RECURSIVE str_join(_, _)
str_join(sep, q) ==
    IF Len(q) = 0 THEN ""
    ELSE IF Len(q) = 1 THEN q[1]
    ELSE q[1] \o sep \o str_join(sep, Tail(q))

----------------------------------------------------------------------------
(* os.path *)

\* the index of the last "/" of p, 0 when there is none
RECURSIVE rfind_slash(_)
rfind_slash(p) ==
    IF Len(p) = 0 THEN 0
    ELSE IF Char(p, Len(p)) = "/" THEN Len(p)
    ELSE rfind_slash(SubSeq(p, 1, Len(p) - 1))

basename(p) == SubSeq(p, rfind_slash(p) + 1, Len(p))

RECURSIVE rstrip_slash(_)
rstrip_slash(s) == IF Len(s) > 0 /\ Char(s, Len(s)) = "/"
                   THEN rstrip_slash(SubSeq(s, 1, Len(s) - 1))
                   ELSE s

dirname(p) ==
    LET head == SubSeq(p, 1, rfind_slash(p))
    IN  IF Len(head) > 0 /\ Len(rstrip_slash(head)) > 0 THEN rstrip_slash(head) ELSE head

join(a, b) ==
    IF startswith(b, "/") THEN b
    ELSE IF Len(a) = 0 \/ Char(a, Len(a)) = "/" THEN a \o b
    ELSE a \o "/" \o b

----------------------------------------------------------------------------
(* Bounds and the small worlds the model runs in *)

MaxRuns == 2          \* searches started in one behaviour of Spec
MaxCustomRoots == 1   \* folders added to custom_roots in one behaviour of Spec
MaxInitRoots == 2     \* folders in custom_roots when a behaviour of RunSpec begins
MaxLines == 3         \* lines of /proc/mounts in MountSpec
MaxLaunches == 2      \* calls of open_terminal_at in one behaviour of TermSpec

\* os.scandir of a directory: its subdirectories and its other entries, in
\* listing order.  A name in dirs whose path is not in the DOMAIN is a
\* directory os.walk does not enter (scandir fails there, or it is a symlink).
TreeS == ("/" :> [dirs |-> <<>>, files |-> <<"Foo", "bar">>])
MountsS == << "/dev/sda1 / ext4 rw 0 0\n" >>

TreeA == ("/"    :> [dirs |-> <<"Foo", "baz">>, files |-> <<>>]) @@
         ("/Foo" :> [dirs |-> <<>>, files |-> <<"bar.txt">>]) @@
         ("/baz" :> [dirs |-> <<>>, files |-> <<"FooBar.log">>])
MountsA == << "/dev/sda1 /Foo ext4 rw 0 0\n",
              "/dev/loop0 /baz squashfs ro 0 0\n" >>

TreeB == ("/"    :> [dirs |-> <<"mnt">>, files |-> <<"foo">>]) @@
         ("/mnt" :> [dirs |-> <<"foo">>, files |-> <<"Foo.txt">>])
MountsB == << "/dev/nvme0n1p2 / ext4 rw 0 0\n",
              "/dev/sdb2 /mnt vfat rw 0 0\n" >>

\* the worlds of Spec (the window and its threads) and of RunSpec (one run)
Worlds == { <<TreeS, MountsS>> }
RunWorlds == { <<TreeA, MountsA>>, <<TreeB, MountsB>> }

\* the lines /proc/mounts is made of in MountSpec
MountLines == { "/dev/sda1 /media/usb1\n",
                "/dev/sdb2 /mnt/data\n",
                "/dev/loop0 /snap/x\n",
                "/dev/nvme0n1p1 /media/usb1 ext4 rw 0 0\n",
                "/dev/mmcblk0p1\n",
                "tmpfs\t/dev/sdcard tmpfs\n" }

\* what the user types into search_input, in Spec and in RunSpec
Texts == {"", "  ", " Foo"}
RunTexts == {"", "  ", " Foo", "ba", "O"}

\* what QFileDialog.getExistingDirectory returns ("" when cancelled)
DialogDirs == {"", "/"}
\* the folders in custom_roots when a behaviour of RunSpec begins; a folder
\* may be gone or unreadable by the time it is searched
RunDirs == {"/", "/Foo", "/mnt"}

----------------------------------------------------------------------------
(* find_mounts_external *)

\* the prefixes the docstring of find_mounts_external names
ExternalPrefixes_docstring == {"/dev/sd", "/dev/mmcblk", "mtdblock"}

\* line 46
ExternalPrefixes == {"/dev/sd", "/dev/mmcblk", "/dev/nvme"}

\* lines 43-47: what one line of the table appends to mounts
line_mounts(line) ==
    LET parts == split(line)
    IN  IF Len(parts) >= 2 /\ \E p \in ExternalPrefixes : startswith(parts[1], p)
        THEN <<parts[2]>>
        ELSE <<>>

\* mounts after the for loop has processed the first n lines
RECURSIVE read_mounts(_, _)
read_mounts(lines, n) ==
    IF n = 0 THEN <<>> ELSE read_mounts(lines, n - 1) \o line_mounts(lines[n])

\* How reading the table can go: no error, open() raises, or the iteration
\* raises after `at` lines were processed.
ReadErrors(lines) ==
    {[kind |-> "none", at |-> 0], [kind |-> "open", at |-> 0]} \cup
    {[kind |-> "read", at |-> k] : k \in 0..Len(lines)}

\* lines 39-47: mounts when the try block is left, and whether it is left by
\* an exception
try_read(lines, err) ==
    [mounts |-> CASE err.kind = "open" -> <<>>
                  [] err.kind = "read" -> read_mounts(lines, err.at)
                  [] OTHER             -> read_mounts(lines, Len(lines)),
     exc |-> err.kind # "none"]

\* find_mounts_external with except FileNotFoundError: an error while the
\* lines are read reaches the caller
find_mounts_external_narrow(lines, err) ==
    LET r == try_read(lines, err)
    IN  [raised |-> err.kind = "read",
         value |-> IF err.kind = "read" THEN <<>> ELSE sorted(Range(r.mounts))]

\* lines 48-50: except Exception swallows the error and the function falls
\* through to the return.  The result: whether the call raised, and its value.
find_mounts_external(lines, err) ==
    LET r == try_read(lines, err)
    IN  [raised |-> FALSE, value |-> sorted(Range(r.mounts))]

\* mounts_out before any call
NoCall == [called |-> FALSE, err |-> [kind |-> "none", at |-> 0],
           raised |-> FALSE, value |-> <<>>]

----------------------------------------------------------------------------
(* os.walk(root, onerror=lambda e: None): the directories yielded, top down *)

RECURSIVE walk(_, _), walk_dirs(_, _, _)
\* os.walk without onerror handling: a directory with a subdirectory that
\* cannot be listed yields nothing
walk_fragile(t, top) ==
    IF top \notin DOMAIN t THEN <<>>
    ELSE IF \E i \in 1..Len(t[top].dirs) : join(top, t[top].dirs[i]) \notin DOMAIN t
    THEN <<>>
    ELSE <<top>> \o walk_dirs(t, top, t[top].dirs)

walk(t, top) ==
    IF top \notin DOMAIN t THEN <<>>
    ELSE <<top>> \o walk_dirs(t, top, t[top].dirs)
walk_dirs(t, top, dirs) ==
    IF Len(dirs) = 0 THEN <<>>
    ELSE walk(t, join(top, Head(dirs))) \o walk_dirs(t, top, Tail(dirs))

----------------------------------------------------------------------------
(* SearchWorker *)

ProgressEvery == 500

\* __init__, then start(): a thread about to enter run().  The last four
\* fields are history: the signals emitted so far, how many had been emitted
\* when the thread read the stop flag as set (-1 while it has not), the number
\* of reads of the stop flag, and the number of names matched against the
\* keyword.
SearchWorker(roots, keyword) ==
    [roots |-> roots, keyword |-> lower(keyword), pc |-> "walk",
     ri |-> 1, di |-> 0, fi |-> 1, total |-> 0,
     emitted |-> <<>>, seen_at |-> -1, checks |-> 0, tested |-> 0]

\* QThread.isRunning(): from start() until the thread has left run()
isRunning(w) == threads[w].pc # "done"

\* the position of the next directory os.walk yields after position <<ri, di>>
\* of the two nested for loops, <<0, 0>> when every root is exhausted
RECURSIVE advance(_, _, _)
advance(roots, ri, di) ==
    IF ri > Len(roots) THEN <<0, 0>>
    ELSE IF di < Len(walk(tree, roots[ri])) THEN <<ri, di + 1>>
    ELSE advance(roots, ri + 1, 0)

dirpath(t) == walk(tree, t.roots[t.ri])[t.di]
filenames(t) == tree[dirpath(t)].files

Signal(w, sig, path, n) == [run |-> w, sig |-> sig, path |-> path, n |-> n]

\* the thread after signal.emit(...): the signal is queued for the UI thread
emit(t, e) == [t EXCEPT !.emitted = Append(@, e)]

\* matches without name.lower(): the match is case sensitive
matches_case_sensitive(keyword, name) == str_in(keyword, name)

\* self.keyword in name.lower()
matches(keyword, name) == str_in(keyword, lower(name))

\* run_walk returning at line 70 without line 69: no finished on cancellation
run_walk_silent(w) ==
    LET t == threads[w]
        nxt == advance(t.roots, t.ri, t.di)
        fin == Signal(w, "finished", "", 0)
    IN  /\ t.pc = "walk"
        /\ IF nxt = <<0, 0>>
           THEN /\ threads' = [threads EXCEPT ![w] = [emit(t, fin) EXCEPT !.pc = "return"]]
                /\ queue' = Append(queue, fin)
           ELSE IF stop_event
           THEN /\ threads' = [threads EXCEPT ![w] =
                                 [t EXCEPT !.pc = "return", !.ri = nxt[1], !.di = nxt[2],
                                           !.seen_at = Len(t.emitted),
                                           !.checks = t.checks + 1]]
                /\ UNCHANGED queue
           ELSE /\ threads' = [threads EXCEPT ![w] =
                                 [t EXCEPT !.pc = "dirname", !.ri = nxt[1], !.di = nxt[2],
                                           !.checks = t.checks + 1]]
                /\ UNCHANGED queue
        /\ UNCHANGED <<fsVars, rootVars, uiVars, mounts_out, termVars>>

\* lines 66-70: the for loops fetch the next directory; the stop flag is read.
\* When the roots are exhausted the loops end and line 84 emits finished.
run_walk(w) ==
    LET t == threads[w]
        nxt == advance(t.roots, t.ri, t.di)
        fin == Signal(w, "finished", "", 0)
    IN  /\ t.pc = "walk"
        /\ IF nxt = <<0, 0>>
           THEN /\ threads' = [threads EXCEPT ![w] = [emit(t, fin) EXCEPT !.pc = "return"]]
                /\ queue' = Append(queue, fin)
           ELSE IF stop_event
           THEN /\ threads' = [threads EXCEPT ![w] =
                                 [emit(t, fin) EXCEPT !.pc = "return",
                                                      !.ri = nxt[1], !.di = nxt[2],
                                                      !.seen_at = Len(t.emitted),
                                  !.checks = t.checks + 1]]
                /\ queue' = Append(queue, fin)
           ELSE /\ threads' = [threads EXCEPT ![w] =
                                 [t EXCEPT !.pc = "dirname", !.ri = nxt[1], !.di = nxt[2],
                                           !.checks = t.checks + 1]]
                /\ UNCHANGED queue
        /\ UNCHANGED <<fsVars, rootVars, uiVars, mounts_out, termVars>>

\* run_dirname entering the file loop without the check of line 75
run_dirname_unchecked(w) ==
    LET t == threads[w]
        hit == matches(t.keyword, basename(dirpath(t)))
        e == Signal(w, "found", dirpath(t), 0)
        pc2 == IF Len(filenames(t)) = 0 THEN "count" ELSE "filename"
    IN  /\ t.pc = "dirname"
        /\ threads' = [threads EXCEPT ![w] =
                         [(IF hit THEN emit(t, e) ELSE t) EXCEPT !.pc = pc2, !.fi = 1,
                                  !.tested = t.tested + 1]]
        /\ queue' = IF hit THEN Append(queue, e) ELSE queue
        /\ UNCHANGED <<fsVars, rootVars, uiVars, mounts_out, termVars>>

\* lines 71-73: the directory's own name is matched
run_dirname(w) ==
    LET t == threads[w]
        hit == matches(t.keyword, basename(dirpath(t)))
        e == Signal(w, "found", dirpath(t), 0)
        pc2 == IF Len(filenames(t)) = 0 THEN "count" ELSE "filecheck"
    IN  /\ t.pc = "dirname"
        /\ threads' = [threads EXCEPT ![w] =
                         [(IF hit THEN emit(t, e) ELSE t) EXCEPT !.pc = pc2, !.fi = 1,
                                  !.tested = t.tested + 1]]
        /\ queue' = IF hit THEN Append(queue, e) ELSE queue
        /\ UNCHANGED <<fsVars, rootVars, uiVars, mounts_out, termVars>>

\* run_filecheck emitting finished twice on cancellation (lines 76 and 84)
run_filecheck_twice(w) ==
    LET t == threads[w]
        fin == Signal(w, "finished", "", 0)
    IN  /\ t.pc = "filecheck"
        /\ IF stop_event
           THEN /\ threads' = [threads EXCEPT ![w] =
                                 [emit(emit(t, fin), fin) EXCEPT !.pc = "return",
                                      !.seen_at = Len(t.emitted),
                                      !.checks = t.checks + 1]]
                /\ queue' = queue \o <<fin, fin>>
           ELSE /\ threads' = [threads EXCEPT ![w] =
                                 [t EXCEPT !.pc = "filename", !.checks = t.checks + 1]]
                /\ UNCHANGED queue
        /\ UNCHANGED <<fsVars, rootVars, uiVars, mounts_out, termVars>>

\* run_filecheck without lines 75-77: the stop flag is not read before a file
run_filecheck_unchecked(w) ==
    LET t == threads[w]
    IN  /\ t.pc = "filecheck"
        /\ threads' = [threads EXCEPT ![w] = [t EXCEPT !.pc = "filename"]]
        /\ UNCHANGED queue
        /\ UNCHANGED <<fsVars, rootVars, uiVars, mounts_out, termVars>>

\* lines 74-77: the stop flag is read before each file
run_filecheck(w) ==
    LET t == threads[w]
        fin == Signal(w, "finished", "", 0)
    IN  /\ t.pc = "filecheck"
        /\ IF stop_event
           THEN /\ threads' = [threads EXCEPT ![w] =
                                 [emit(t, fin) EXCEPT !.pc = "return",
                                                      !.seen_at = Len(t.emitted),
                                  !.checks = t.checks + 1]]
                /\ queue' = Append(queue, fin)
           ELSE /\ threads' = [threads EXCEPT ![w] =
                                 [t EXCEPT !.pc = "filename", !.checks = t.checks + 1]]
                /\ UNCHANGED queue
        /\ UNCHANGED <<fsVars, rootVars, uiVars, mounts_out, termVars>>

\* run_filename emitting each matching file twice
run_filename_twice(w) ==
    LET t == threads[w]
        fname == filenames(t)[t.fi]
        hit == matches(t.keyword, fname)
        e == Signal(w, "found", join(dirpath(t), fname), 0)
        pc2 == IF t.fi = Len(filenames(t)) THEN "count" ELSE "filecheck"
    IN  /\ t.pc = "filename"
        /\ threads' = [threads EXCEPT ![w] =
                         [(IF hit THEN emit(emit(t, e), e) ELSE t) EXCEPT
                                  !.pc = pc2, !.fi = t.fi + 1, !.tested = t.tested + 1]]
        /\ queue' = IF hit THEN queue \o <<e, e>> ELSE queue
        /\ UNCHANGED <<fsVars, rootVars, uiVars, mounts_out, termVars>>

\* lines 78-80: the file's name is matched
run_filename(w) ==
    LET t == threads[w]
        fname == filenames(t)[t.fi]
        hit == matches(t.keyword, fname)
        e == Signal(w, "found", join(dirpath(t), fname), 0)
        pc2 == IF t.fi = Len(filenames(t)) THEN "count" ELSE "filecheck"
    IN  /\ t.pc = "filename"
        /\ threads' = [threads EXCEPT ![w] =
                         [(IF hit THEN emit(t, e) ELSE t) EXCEPT !.pc = pc2, !.fi = t.fi + 1,
                                  !.tested = t.tested + 1]]
        /\ queue' = IF hit THEN Append(queue, e) ELSE queue
        /\ UNCHANGED <<fsVars, rootVars, uiVars, mounts_out, termVars>>

\* run_count starting the count again after each progress signal
run_count_resets(w) ==
    LET t == threads[w]
        total == t.total + 1
        hit == total % ProgressEvery = 0
        e == Signal(w, "progress", "", total)
    IN  /\ t.pc = "count"
        /\ threads' = [threads EXCEPT ![w] =
                         [(IF hit THEN emit(t, e) ELSE t) EXCEPT !.pc = "walk",
                                  !.total = IF hit THEN 0 ELSE total]]
        /\ queue' = IF hit THEN Append(queue, e) ELSE queue
        /\ UNCHANGED <<fsVars, rootVars, uiVars, mounts_out, termVars>>

\* lines 81-83: the directory is counted
run_count(w) ==
    LET t == threads[w]
        total == t.total + 1
        hit == total % ProgressEvery = 0
        e == Signal(w, "progress", "", total)
    IN  /\ t.pc = "count"
        /\ threads' = [threads EXCEPT ![w] =
                         [(IF hit THEN emit(t, e) ELSE t) EXCEPT !.pc = "walk", !.total = total]]
        /\ queue' = IF hit THEN Append(queue, e) ELSE queue
        /\ UNCHANGED <<fsVars, rootVars, uiVars, mounts_out, termVars>>

\* run() returns after finished.emit() and the thread ends
run_return(w) ==
    /\ threads[w].pc = "return"
    /\ threads' = [threads EXCEPT ![w].pc = "done"]
    /\ UNCHANGED <<fsVars, rootVars, uiVars, queue, mounts_out, termVars>>

run(w) ==
    \/ run_walk(w)
    \/ run_dirname(w)
    \/ run_filecheck(w)
    \/ run_filename(w)
    \/ run_count(w)
    \/ run_return(w)

----------------------------------------------------------------------------
(* MainWindow: roots *)

\* _update_roots_label
update_roots_label(roots) ==
    IF Len(roots) = 0 THEN "Racines: / (par défaut)"
    ELSE "Racines: " \o str_join(", ", roots)

\* the user picks d in the folder dialog
add_custom_folder(d) ==
    /\ Len(d) > 0 => Len(custom_roots) < MaxCustomRoots
    /\ IF Len(d) > 0
       THEN /\ custom_roots' = Append(custom_roots, d)
            /\ roots_label' = update_roots_label(custom_roots')
       ELSE UNCHANGED <<custom_roots, roots_label>>
    /\ UNCHANGED <<fsVars, include_external_cb, uiVars, runVars, mounts_out, termVars>>

clear_custom_roots ==
    /\ custom_roots' = <<>>
    /\ roots_label' = update_roots_label(custom_roots')
    /\ UNCHANGED <<fsVars, include_external_cb, uiVars, runVars, mounts_out, termVars>>

\* the user toggles the "Inclure disques externes montés" check box
toggle_include_external ==
    /\ include_external_cb' = ~include_external_cb
    /\ UNCHANGED <<fsVars, custom_roots, roots_label, uiVars, runVars, mounts_out, termVars>>

----------------------------------------------------------------------------
(* MainWindow: the search *)

\* lines 188-190 without the test of line 189: every mount is appended
add_mounts_unchecked(roots, mounts) == roots \o mounts

\* lines 188-190: each mount not yet in roots is appended
RECURSIVE add_mounts(_, _)
add_mounts(roots, mounts) ==
    IF Len(mounts) = 0 THEN roots
    ELSE add_mounts(IF Head(mounts) \in Range(roots) THEN roots
                    ELSE Append(roots, Head(mounts)),
                    Tail(mounts))

\* lines 180-184
base_roots(custom) == IF Len(custom) > 0 THEN custom ELSE <<"/">>

\* lines 192-203, with the roots start_search has assembled
launch(roots, keyword) ==
    /\ result_list' = <<>>
    /\ result_run' = <<>>
    /\ stop_event' = FALSE
    /\ stop_mark' = [w \in 1..(Len(threads) + 1) |-> -1]
    /\ threads' = Append(threads, SearchWorker(roots, keyword))
    /\ worker' = Len(threads) + 1
    /\ loader' = TRUE
    /\ search_button' = FALSE
    /\ stop_button' = TRUE
    /\ status_label' = "Recherche en cours..."

\* start_search clearing the results before it looks at the keyword
start_search_clears_first(text) ==
    LET keyword == strip(text)
    IN  /\ IF Len(keyword) = 0
           THEN /\ status_label' = "Entrer un mot-clé"
                /\ result_list' = <<>>
                /\ result_run' = <<>>
                /\ UNCHANGED <<search_button, stop_button, loader,
                               stop_event, worker, threads, stop_mark>>
           ELSE IF include_external_cb
           THEN \E err \in ReadErrors(proc_mounts) :
                    launch(add_mounts(base_roots(custom_roots),
                                      find_mounts_external(proc_mounts, err).value),
                           keyword)
           ELSE launch(base_roots(custom_roots), keyword)
        /\ UNCHANGED <<fsVars, rootVars, queue, mounts_out, termVars>>

start_search(text) ==
    LET keyword == strip(text)
    IN  /\ IF Len(keyword) = 0
           THEN /\ status_label' = "Entrer un mot-clé"
                /\ UNCHANGED <<result_list, search_button, stop_button, loader,
                               stop_event, worker, result_run, threads, stop_mark>>
           ELSE IF include_external_cb
           THEN \E err \in ReadErrors(proc_mounts) :
                    launch(add_mounts(base_roots(custom_roots),
                                      find_mounts_external(proc_mounts, err).value),
                           keyword)
           ELSE launch(base_roots(custom_roots), keyword)
        /\ UNCHANGED <<fsVars, rootVars, queue, mounts_out, termVars>>

\* a search that would construct a worker is taken only while fewer than n
\* have been constructed
MayStart(text, n) == Len(strip(text)) > 0 => Len(threads) < n

\* search_button.clicked with one of texts typed: only an enabled button can
\* be clicked
click_search_with(texts, n) ==
    /\ search_button
    /\ \E text \in texts : MayStart(text, n) /\ start_search(text)

\* search_input.returnPressed with one of texts typed: the line edit is never
\* disabled
return_pressed_with(texts, n) ==
    \E text \in texts : MayStart(text, n) /\ start_search(text)

click_search == click_search_with(Texts, MaxRuns)

return_pressed == return_pressed_with(Texts, MaxRuns)

\* lines 205-208
stop_search ==
    /\ IF worker # 0 /\ isRunning(worker)
       THEN /\ stop_event' = TRUE
            /\ status_label' = "Arrêt en cours..."
            /\ stop_mark' = IF stop_event THEN stop_mark
                            ELSE [w \in 1..Len(threads) |->
                                     IF isRunning(w) THEN Len(threads[w].emitted) ELSE -1]
       ELSE UNCHANGED <<stop_event, status_label, stop_mark>>
    /\ UNCHANGED <<fsVars, rootVars, result_list, search_button, stop_button, loader,
                   worker, result_run, runVars, mounts_out, termVars>>

\* stop_button.clicked
click_stop ==
    /\ stop_button
    /\ stop_search

on_found(e) ==
    /\ result_list' = Append(result_list, e.path)
    /\ result_run' = Append(result_run, e.run)
    /\ UNCHANGED <<status_label, search_button, stop_button, loader>>

on_progress(e) ==
    /\ status_label' = "Parcouru ~" \o ToString(e.n) \o " dossiers..."
    /\ UNCHANGED <<result_list, result_run, search_button, stop_button, loader>>

on_finished ==
    /\ loader' = FALSE
    /\ search_button' = TRUE
    /\ stop_button' = FALSE
    /\ status_label' = "Fini. " \o ToString(Len(result_list)) \o " résultats"
    /\ UNCHANGED <<result_list, result_run>>

\* The UI thread's event loop takes the oldest queued signal and calls the
\* slot connected to it (lines 195-197).
deliver ==
    /\ Len(queue) > 0
    /\ LET e == Head(queue)
       IN  CASE e.sig = "found"    -> on_found(e)
             [] e.sig = "progress" -> on_progress(e)
             [] OTHER              -> on_finished
    /\ queue' = Tail(queue)
    /\ UNCHANGED <<fsVars, rootVars, stop_event, worker, threads, stop_mark, mounts_out,
                   termVars>>

----------------------------------------------------------------------------
(* The window with its worker threads *)

\* MainWindow.__init__ and _build_ui: no roots, nothing searched or opened yet
NoRoots ==
    /\ custom_roots = <<>>
    /\ include_external_cb = FALSE
    /\ roots_label = "Racines: / (par défaut)"

IdleWindow ==
    /\ result_list = <<>>
    /\ result_run = <<>>
    /\ stop_mark = <<>>
    /\ status_label = "Prêt"
    /\ search_button = TRUE
    /\ stop_button = FALSE
    /\ loader = FALSE
    /\ stop_event = FALSE
    /\ worker = 0
    /\ threads = <<>>
    /\ queue = <<>>
    /\ mounts_out = NoCall
    /\ spawned = <<>>
    /\ dialogs = <<>>
    /\ term_calls = 0
    /\ launched = <<>>
    /\ escaped = FALSE

Init ==
    /\ \E wd \in Worlds : tree = wd[1] /\ proc_mounts = wd[2]
    /\ which_ok = {}
    /\ NoRoots
    /\ IdleWindow

Next ==
    \/ \E d \in DialogDirs : add_custom_folder(d)
    \/ clear_custom_roots
    \/ toggle_include_external
    \/ click_search
    \/ return_pressed
    \/ click_stop
    \/ deliver
    \/ \E w \in 1..Len(threads) : run(w)

Spec == Init /\ [][Next]_vars

----------------------------------------------------------------------------
(* One search, from any configuration of the roots *)

\* the sequences over S of length at most n
SeqsUpTo(S, n) == UNION {[1..k -> S] : k \in 0..n}

RunInit ==
    /\ \E wd \in RunWorlds : tree = wd[1] /\ proc_mounts = wd[2]
    /\ which_ok = {}
    /\ custom_roots \in SeqsUpTo(RunDirs, MaxInitRoots)
    /\ include_external_cb \in BOOLEAN
    /\ roots_label = update_roots_label(custom_roots)
    /\ IdleWindow

RunNext ==
    \/ click_search_with(RunTexts, 1)
    \/ return_pressed_with(RunTexts, 1)
    \/ click_stop
    \/ deliver
    \/ \E w \in 1..Len(threads) : run(w)

RunSpec == RunInit /\ [][RunNext]_vars

----------------------------------------------------------------------------
(* One search over a tree of more than 500 directories *)

MaxProgressRoots == 20   \* folders in custom_roots when a behaviour of ProgressSpec begins
Fanout == 49             \* subdirectories of each of the two folders of TreeP

\* "/" with the folders /a and /b, which have the subdirectories a-1 ..
\* a-Fanout and b-1 .. b-Fanout; one file in /a and one in /b/b-49
TreeP ==
    LET sub(x) == [j \in 1..Fanout |-> x \o "-" \o ToString(j)]
    IN  [d \in {"/", "/a", "/b"} \cup {"/a/" \o sub("a")[j] : j \in 1..Fanout}
                                 \cup {"/b/" \o sub("b")[j] : j \in 1..Fanout} |->
            [dirs |-> IF d = "/" THEN <<"a", "b">>
                      ELSE IF d = "/a" THEN sub("a")
                      ELSE IF d = "/b" THEN sub("b")
                      ELSE <<>>,
             files |-> IF d = "/a" THEN <<"note">>
                       ELSE IF d = "/b/b-49" THEN <<"b-49.txt">>
                       ELSE <<>>]]

\* custom_roots when a behaviour of ProgressSpec begins: /a added once, or
\* added again and again with /b in the middle, to half the bound or to the
\* bound
ProgressRoots ==
    {[i \in 1..n |-> IF i = MaxProgressRoots \div 2 THEN "/b" ELSE "/a"] :
        n \in {1, MaxProgressRoots \div 2, MaxProgressRoots}}
\* the keyword: the name of the last subdirectory of /b
ProgressTexts == {"b-49"}

ProgressInit ==
    /\ tree = TreeP /\ proc_mounts = <<>>
    /\ which_ok = {}
    /\ custom_roots \in ProgressRoots
    /\ include_external_cb = FALSE
    /\ roots_label = update_roots_label(custom_roots)
    /\ IdleWindow

ProgressNext ==
    \/ click_search_with(ProgressTexts, 1)
    \/ return_pressed_with(ProgressTexts, 1)
    \/ click_stop
    \/ deliver
    \/ \E w \in 1..Len(threads) : run(w)

ProgressSpec == ProgressInit /\ [][ProgressNext]_vars

----------------------------------------------------------------------------
(* find_mounts_external called on any mount table *)

call_find_mounts ==
    /\ \E err \in ReadErrors(proc_mounts) :
           LET r == find_mounts_external(proc_mounts, err)
           IN  mounts_out' = [called |-> TRUE, err |-> err,
                              raised |-> r.raised, value |-> r.value]
    /\ UNCHANGED <<fsVars, rootVars, uiVars, runVars, termVars>>

MountInit ==
    /\ tree = TreeS
    /\ proc_mounts \in SeqsUpTo(MountLines, MaxLines)
    /\ which_ok = {}
    /\ NoRoots
    /\ IdleWindow

MountNext == call_find_mounts

MountSpec == MountInit /\ [][MountNext]_vars

----------------------------------------------------------------------------
(* The terminal launcher *)

candidates == <<"konsole", "x-terminal-emulator", "xfce4-terminal",
                "gnome-terminal", "urxvt", "xterm">>

\* shutil.which(prog), and the scan of PATH that replaces it when it raises:
\* the path of an executable named prog on PATH, "" for None
shutil_which(prog) == IF prog \in which_ok THEN "/usr/bin/" \o prog ELSE ""

\* the loop of lines 259-262 without its break: the last candidate found wins
RECURSIVE probe_no_break(_)
probe_no_break(cands) ==
    IF Len(cands) = 0 THEN ""
    ELSE IF Len(probe_no_break(Tail(cands))) > 0 THEN probe_no_break(Tail(cands))
    ELSE IF Len(shutil_which(Head(cands))) > 0 THEN Head(cands)
    ELSE ""

\* lines 258-262: cmd, "" for None
RECURSIVE probe(_)
probe(cands) ==
    IF Len(cands) = 0 THEN ""
    ELSE IF Len(shutil_which(Head(cands))) > 0 THEN Head(cands)
    ELSE probe(Tail(cands))

\* lines 267-272: the argument list handed to Popen
popen_args(cmd, folder) ==
    IF cmd = "konsole" THEN <<cmd, "--workdir", folder>>
    ELSE IF cmd = "x-terminal-emulator" \/ cmd = "gnome-terminal"
    THEN <<cmd, "--", "bash", "-c", "cd \"" \o folder \o "\"; exec bash">>
    ELSE <<cmd, "-e", "bash -lc \"cd \"" \o folder \o "\"; exec bash\"">>

\* what Popen can raise when the program cannot be executed
PopenErrors == {"FileNotFoundError", "PermissionError"}

\* except Exception: the exceptions the clause of line 273 catches
except_Exception(exc) == exc \in {"OSError", "FileNotFoundError", "PermissionError"}

\* exc is "" when Popen starts the process, else the exception it raises
open_terminal_at(folder, exc) ==
    LET cmd == probe(candidates)
    IN  /\ term_calls' = term_calls + 1
        /\ IF Len(cmd) = 0
           THEN /\ dialogs' = Append(dialogs,
                      <<"Aucun terminal",
                        "Aucun terminal compatible trouvé (konsole, xterm, ...).">>)
                /\ UNCHANGED <<spawned, launched, escaped>>
           ELSE IF Len(exc) = 0
           THEN /\ spawned' = Append(spawned, popen_args(cmd, folder))
                /\ launched' = Append(launched, folder)
                /\ UNCHANGED <<dialogs, escaped>>
           ELSE IF except_Exception(exc)
           THEN /\ dialogs' = Append(dialogs,
                      <<"Erreur", "Impossible d'ouvrir le terminal: " \o exc>>)
                /\ UNCHANGED <<spawned, launched, escaped>>
           ELSE /\ escaped' = TRUE
                /\ UNCHANGED <<spawned, launched, dialogs>>
        /\ UNCHANGED <<fsVars, rootVars, uiVars, runVars, mounts_out, which_ok>>

\* os.path.isdir
isdir(path) ==
    \/ path \in DOMAIN tree
    \/ \E d \in DOMAIN tree : \E i \in 1..Len(tree[d].dirs) : join(d, tree[d].dirs[i]) = path

\* QDesktopServices.openUrl, QApplication.clipboard().setText: the desktop
\* takes over, nothing of the window changes
handed_over == UNCHANGED vars

MayLaunch == term_calls < MaxLaunches

\* result_list.itemDoubleClicked on item i
open_item(i) ==
    LET path == result_list[i]
    IN  IF isdir(path)
        THEN MayLaunch /\ \E exc \in {""} \cup PopenErrors : open_terminal_at(path, exc)
        ELSE handed_over

\* the user picks act in the context menu of item i
show_context_menu(i, act) ==
    LET path == result_list[i]
        parent == IF Len(dirname(path)) = 0 THEN path ELSE dirname(path)
        here == IF isdir(path) THEN path ELSE dirname(path)
    IN  CASE act = "open_parent" ->
                 MayLaunch /\ \E exc \in {""} \cup PopenErrors : open_terminal_at(parent, exc)
          [] act = "open_here" ->
                 MayLaunch /\ \E exc \in {""} \cup PopenErrors : open_terminal_at(here, exc)
          [] OTHER -> handed_over

MenuActs == {"copy", "open_parent", "open_here", "open_file"}

TermInit ==
    /\ tree = TreeA /\ proc_mounts = MountsA
    /\ which_ok \in SUBSET Range(candidates)
    /\ NoRoots
    /\ IdleWindow

TermNext ==
    \/ RunNext
    \/ \E i \in 1..Len(result_list) : open_item(i)
    \/ \E i \in 1..Len(result_list) : \E act \in MenuActs : show_context_menu(i, act)

TermSpec == TermInit /\ [][TermNext]_vars

----------------------------------------------------------------------------
(* open_terminal_at called for any folder *)

\* the folders open_terminal_at is called for in LaunchSpec
LaunchDirs == {"/tmp/x", "/tmp/my folder", "/a b/c d"}

call_open_terminal_at ==
    /\ MayLaunch
    /\ \E folder \in LaunchDirs : \E exc \in {""} \cup PopenErrors :
           open_terminal_at(folder, exc)

LaunchInit ==
    /\ tree = TreeS /\ proc_mounts = MountsS
    /\ which_ok \in SUBSET Range(candidates)
    /\ NoRoots
    /\ IdleWindow

LaunchNext == call_open_terminal_at

LaunchSpec == LaunchInit /\ [][LaunchNext]_vars

\* How a shell splits a command line into words: blanks separate words
\* outside double quotes, a double quote opens or closes a quoted stretch and
\* is removed, and an unquoted ";" is a token of its own.  cur is the word
\* being built, has whether there is one, inq whether a quote is open.
RECURSIVE shell_scan(_, _, _, _)
shell_scan(s, cur, has, inq) ==
    LET c == Char(s, 1)
        word == IF has THEN <<cur>> ELSE <<>>
    IN  IF Len(s) = 0 THEN word
        ELSE IF c = "\"" THEN shell_scan(Tail(s), cur, TRUE, ~inq)
        ELSE IF ~inq /\ IsSpace(c) THEN word \o shell_scan(Tail(s), "", FALSE, FALSE)
        ELSE IF ~inq /\ c = ";" THEN word \o <<";">> \o shell_scan(Tail(s), "", FALSE, FALSE)
        ELSE shell_scan(Tail(s), cur \o c, TRUE, inq)

shell_words(s) == shell_scan(s, "", FALSE, FALSE)

\* the words of the first command of a script: those before the first ";"
RECURSIVE first_command(_)
first_command(ws) ==
    IF Len(ws) = 0 \/ Head(ws) = ";" THEN <<>>
    ELSE <<Head(ws)>> \o first_command(Tail(ws))

\* The script the launched bash runs.  Line 270 hands it to bash -c as one
\* argument; line 272 hands the terminal one command line, which is split
\* into words, the script being the word after bash -lc.
shell_script(args) ==
    IF args[2] = "--" THEN args[5]
    ELSE LET ws == shell_words(args[3])
         IN  IF Len(ws) >= 3 THEN ws[3] ELSE ""

\* the arguments of the cd the launched shell runs first
cd_args(args) ==
    LET ws == first_command(shell_words(shell_script(args)))
    IN  IF Len(ws) > 0 /\ Head(ws) = "cd" THEN Tail(ws) ELSE <<>>

----------------------------------------------------------------------------
(* The threads are scheduled and the event loop runs *)

Fairness ==
    /\ WF_vars(deliver)
    /\ \A w \in 1..MaxRuns : WF_vars(w <= Len(threads) /\ run(w))

FairSpec == Spec /\ Fairness

----------------------------------------------------------------------------
(* Properties *)

Threads == 1..Len(threads)

\* run() of thread w has emitted its last signal and is returning or has returned
Returned(w) == threads[w].pc \in {"return", "done"}

FinishedAt(w) == {i \in 1..Len(threads[w].emitted) : threads[w].emitted[i].sig = "finished"}

\* on_finished has run for thread w
Handled(w) ==
    /\ w <= Len(threads)
    /\ FinishedAt(w) # {}
    /\ \A j \in 1..Len(queue) : ~(queue[j].run = w /\ queue[j].sig = "finished")

\* C1: at most one SearchWorker is inside run() at any time.
C1_AtMostOneWorker == Cardinality({w \in Threads : ~Returned(w)}) <= 1

\* C2: every entry of the result list was emitted by the most recently started
\* run; no found event of an earlier run is appended after the list was
\* cleared for a later one.
C2_SingleStream == \A i \in 1..Len(result_run) : result_run[i] = worker

\* C3: a run emits finished exactly once, as its last signal, and has done so
\* exactly when run() is over, by exhaustion or by cancellation.
C3_FinishedOnceAndLast ==
    \A w \in Threads :
        /\ Cardinality(FinishedAt(w)) <= 1
        /\ FinishedAt(w) # {} => FinishedAt(w) = {Len(threads[w].emitted)}
        /\ Returned(w) <=> FinishedAt(w) # {}

\* a run that was cancelled after it had emitted a match, and is over
C3_Witness ==
    /\ Len(threads) = 1
    /\ threads[1].pc = "done"
    /\ threads[1].seen_at >= 1

\* C4: once stop was clicked while a worker runs (the flag is set and the
\* thread is running), on_finished eventually runs for that worker.
C4_StopLeadsToFinished ==
    \A r \in 1..MaxRuns :
        (r <= Len(threads) /\ isRunning(r) /\ stop_event) ~> Handled(r)

\* a run that saw the stop flag and whose completion the window has handled
C4_Witness ==
    /\ Len(threads) >= 1
    /\ threads[1].seen_at >= 0
    /\ Handled(1)
    /\ search_button

\* C5: every name the worker matches was preceded by its own read of the stop
\* flag, and a thread that read the flag as set emits finished and nothing else.
C5_StopObserved ==
    \A w \in Threads :
        LET t == threads[w]
        IN  /\ t.checks = t.tested + (IF t.pc \in {"dirname", "filename"} THEN 1 ELSE 0)
                                   + (IF t.seen_at >= 0 THEN 1 ELSE 0)
            /\ t.seen_at >= 0 =>
                   /\ Returned(w)
                   /\ Len(t.emitted) = t.seen_at + 1
                   /\ t.emitted[Len(t.emitted)].sig = "finished"

\* a run stopped by the check before a file, after it had emitted a match
C5_Witness ==
    /\ Len(threads) = 1
    /\ threads[1].seen_at >= 1
    /\ threads[1].checks > threads[1].tested
    /\ threads[1].fi >= 1 /\ threads[1].tested >= 2

\* the directory tree below root, as the file system has it
IsUnder(p, root) == p = root \/ startswith(p, IF root = "/" THEN "/" ELSE root \o "/")
Listed(root) == IF root \in DOMAIN tree THEN {d \in DOMAIN tree : IsUnder(d, root)} ELSE {}
DirsOf(root) == Listed(root) \cup
                UNION {{join(d, n) : n \in Range(tree[d].dirs)} : d \in Listed(root)}
FilesOf(root) == UNION {{join(d, n) : n \in Range(tree[d].files)} : d \in Listed(root)}

\* the own name of p contains k, case-insensitively
NameContains(k, p) == str_in(lower(k), lower(basename(p)))

\* how often thread w has emitted found(p)
TimesFound(w, p) ==
    Cardinality({i \in 1..Len(threads[w].emitted) :
                    threads[w].emitted[i].sig = "found" /\ threads[w].emitted[i].path = p})
FoundPaths(w) ==
    {threads[w].emitted[i].path : i \in 1..Len(threads[w].emitted)} \ {""}

\* an uncancelled run over one tree that is over
Complete(w) == Returned(w) /\ threads[w].seen_at < 0 /\ Len(threads[w].roots) = 1

\* C6 as stated: after an uncancelled run over T, exactly the files and
\* directories of T whose own name contains k were emitted, each once.
C6_AllEntriesOnce ==
    \A w \in Threads :
        Complete(w) =>
            LET root == threads[w].roots[1]
                entries == DirsOf(root) \cup FilesOf(root)
            IN  \A p \in entries \cup FoundPaths(w) :
                    TimesFound(w, p) =
                        IF p \in entries /\ NameContains(threads[w].keyword, p) THEN 1 ELSE 0

\* C6 amended: after an uncancelled run over T, exactly the directories of T
\* that os.walk could list, and the files listed in them, whose own name
\* contains k were emitted, each once.
C6_ListedEntriesOnce ==
    \A w \in Threads :
        Complete(w) =>
            LET root == threads[w].roots[1]
                entries == Listed(root) \cup FilesOf(root)
            IN  \A p \in entries \cup FoundPaths(w) :
                    TimesFound(w, p) =
                        IF p \in entries /\ NameContains(threads[w].keyword, p) THEN 1 ELSE 0

\* the example of the specification: Foo and baz/FooBar.log, but not baz
C6_Witness ==
    /\ Len(threads) = 1
    /\ Complete(1)
    /\ threads[1].roots = <<"/">>
    /\ FoundPaths(1) = {"/Foo", "/baz/FooBar.log"}

\* C7: submitting an empty or whitespace-only keyword changes the status text
\* and nothing else: no worker is started, the results are kept.
C7_BlankKeywordFrame ==
    [][(\E text \in RunTexts : Len(strip(text)) = 0 /\ start_search(text)) =>
           /\ status_label' = "Entrer un mot-clé"
           /\ UNCHANGED <<result_list, result_run, stop_event, worker, search_button,
                          stop_button, loader, threads, queue, rootVars>>]_vars

\* a blank keyword was submitted during a search that has results
C7_Witness ==
    /\ status_label = "Entrer un mot-clé"
    /\ Len(result_list) > 0
    /\ worker # 0 /\ isRunning(worker)
    /\ ~search_button

\* the mount points of the lines among the first n that have at least two
\* fields and a device field starting with one of the external prefixes
ExternalMounts(lines, n) ==
    {split(lines[i])[2] : i \in {j \in 1..n :
        /\ Len(split(lines[j])) >= 2
        /\ \E p \in {"/dev/sd", "/dev/mmcblk", "/dev/nvme"} : startswith(split(lines[j])[1], p)}}

NoDuplicates(q) == \A i, j \in 1..Len(q) : q[i] = q[j] => i = j

TerminalOrder == <<"konsole", "x-terminal-emulator", "xfce4-terminal",
                   "gnome-terminal", "urxvt", "xterm">>

Resolvable == {k \in 1..Len(TerminalOrder) : TerminalOrder[k] \in which_ok}

\* C10: every call of open_terminal_at either starts one process, of the
\* earliest candidate that is resolvable, or shows one warning: the "no
\* terminal" one when no candidate is resolvable, the one with the reason when
\* Popen raises; no error leaves open_terminal_at.
C10_TerminalLaunch ==
    /\ ~escaped
    /\ Len(spawned) + Len(dialogs) = term_calls
    /\ \A i \in 1..Len(spawned) :
           \E k \in Resolvable : /\ spawned[i][1] = TerminalOrder[k]
                                 /\ \A j \in Resolvable : k <= j
    /\ \A i \in 1..Len(dialogs) :
           IF Resolvable = {}
           THEN dialogs[i][1] = "Aucun terminal"
           ELSE /\ dialogs[i][1] = "Erreur"
                /\ \E exc \in PopenErrors :
                       dialogs[i][2] = "Impossible d'ouvrir le terminal: " \o exc

\* konsole is missing, two later candidates are there: the earlier one was
\* started, and a second launch failed with a warning
C10_Witness ==
    /\ which_ok = {"xfce4-terminal", "xterm"}
    /\ Len(spawned) = 1 /\ spawned[1][1] = "xfce4-terminal"
    /\ Len(dialogs) = 1

\* process i was started through a shell command (lines 270 and 272)
ShellBased(i) == spawned[i][1] # "konsole"

\* C11: for a folder containing a space, every shell-command-based launch
\* changes into exactly that folder: the cd of the launched shell has the
\* whole path as its single argument.
C11_CdIntoFolder ==
    \A i \in 1..Len(spawned) :
        (ShellBased(i) /\ str_in(" ", launched[i])) => cd_args(spawned[i]) = <<launched[i]>>

\* the part of C11 that the code does satisfy: the bash -c branch of line 270
C11_DashCBranch ==
    \A i \in 1..Len(spawned) :
        (spawned[i][2] = "--" /\ str_in(" ", launched[i])) => cd_args(spawned[i]) = <<launched[i]>>

\* the runs that were started and whose completion on_finished has not handled
Outstanding == {w \in Threads : ~Handled(w)}

\* C12: the buttons mirror the search lifecycle: search disabled and stop
\* enabled exactly while some started run is outstanding, search enabled and
\* stop disabled exactly when none is.
C12_ButtonsMirrorLifecycle ==
    /\ Outstanding # {} <=> (~search_button /\ stop_button)
    /\ Outstanding = {} <=> (search_button /\ ~stop_button)

\* q is in ascending str order
Ascending(q) == \A i, j \in 1..Len(q) : i < j => StrLess(q[i], q[j])

\* roots is what the window's root configuration prescribes: the custom
\* roots in insertion order, or "/" alone when there are none; then, if the
\* box is checked, the external mount points found (those of the lines read
\* before an error, if any), without the ones already in the list
RootsAsConfigured(roots) ==
    LET base == IF Len(custom_roots) > 0 THEN custom_roots ELSE <<"/">>
        rest == SubSeq(roots, Len(base) + 1, Len(roots))
    IN  /\ Len(roots) >= Len(base)
        /\ SubSeq(roots, 1, Len(base)) = base
        /\ ~include_external_cb => rest = <<>>
        /\ include_external_cb =>
               /\ Ascending(rest)
               /\ \E n \in 0..Len(proc_mounts) :
                      Range(rest) = ExternalMounts(proc_mounts, n) \ Range(base)
        /\ \A i \in 1..Len(roots) : roots[i] = "/" =>
               \/ i <= Len(base)
               \/ "/" \in ExternalMounts(proc_mounts, Len(proc_mounts))

\* C13: the root list start_search hands to a new worker is the custom roots
\* in insertion order, or the default root "/" when there are none, followed
\* (only if the box is checked) by each external mount point not already in
\* the list; it is never empty and no mount point is appended twice.
C13_RootList ==
    [][Len(threads') = Len(threads) + 1 =>
           LET roots == threads'[Len(threads')].roots
           IN  /\ Len(roots) > 0
               /\ RootsAsConfigured(roots)]_vars

\* a search was started with the default root and the box checked, where the
\* mount table lists "/" itself and /mnt: only /mnt was appended
C13_Witness ==
    /\ Len(threads) = 1
    /\ custom_roots = <<>> /\ include_external_cb
    /\ "/" \in ExternalMounts(proc_mounts, Len(proc_mounts))
    /\ threads[1].roots = <<"/", "/mnt">>

\* what a click on stop leaves alone when it sets the flag and the status text
StopFrame ==
    UNCHANGED <<result_list, result_run, search_button, stop_button, loader,
                worker, threads, queue, rootVars, fsVars, mounts_out, termVars>>

\* C14: whenever stop can be clicked, the click during a run sets the
\* cancellation flag and the status text and changes nothing else (results,
\* buttons, progress bar, worker reference, threads and queued signals stay,
\* so the window remains in Searching), and the click when no worker is
\* running changes nothing at all.
C14_StopFrame ==
    stop_button =>
        IF \E w \in Threads : isRunning(w)
        THEN ENABLED (/\ click_stop
                      /\ stop_event'
                      /\ status_label' = "Arrêt en cours..."
                      /\ ~search_button' /\ stop_button'
                      /\ StopFrame)
        ELSE ENABLED (click_stop /\ UNCHANGED vars)

\* the number of directories that can be listed at and below top
RECURSIVE CountDirs(_), CountBelow(_, _)
CountDirs(top) ==
    IF top \notin DOMAIN tree THEN 0 ELSE 1 + CountBelow(top, Len(tree[top].dirs))
CountBelow(top, n) ==
    IF n = 0 THEN 0
    ELSE CountBelow(top, n - 1) + CountDirs(join(top, tree[top].dirs[n]))

\* the number of directories at and below the first n roots
RECURSIVE DirsInRoots(_, _)
DirsInRoots(roots, n) ==
    IF n = 0 THEN 0 ELSE DirsInRoots(roots, n - 1) + CountDirs(roots[n])

\* The directory visits thread w has completed: the directories yielded up
\* to its position in the loops, less the one it is working on or was
\* cancelled at.
Visited(w) ==
    LET t == threads[w]
        at == DirsInRoots(t.roots, t.ri - 1) + t.di
    IN  IF t.pc \in {"dirname", "filecheck", "filename", "count"} \/ t.seen_at >= 0
        THEN at - 1
        ELSE at

\* the values carried by the progress signals thread w has emitted, in order
ProgressValues(w) ==
    LET prog == SelectSeq(threads[w].emitted, LAMBDA e : e.sig = "progress")
    IN  [k \in 1..Len(prog) |-> prog[k].n]

\* C15: a run counts its completed directory visits in one counter across
\* all its roots and has emitted one progress signal for each multiple of 500
\* the counter has reached: the k-th carries 500*k, so the values increase
\* strictly and a run of fewer than 500 visits emits none.
C15_ProgressEvery500 ==
    \A w \in Threads :
        LET values == ProgressValues(w)
            visited == Visited(w)
        IN  /\ threads[w].total = visited
            /\ Len(values) * 500 <= visited
            /\ visited < (Len(values) + 1) * 500
            /\ \A k \in 1..Len(values) : values[k] = 500 * k
            /\ \A j, k \in 1..Len(values) : j < k => values[j] < values[k]

\* a run over many roots, none of 500 directories, is over, emitted progress
\* twice, and the window showed the second count
C15_Witness ==
    /\ Len(threads) = 1
    /\ Len(threads[1].roots) > 2
    /\ threads[1].pc = "done" /\ threads[1].seen_at < 0
    /\ ProgressValues(1) = <<500, 1000>>
    /\ status_label = "Parcouru ~1000 dossiers..."

\* the paths thread w has emitted via found, in emission order
FoundSeq(w) ==
    LET hits == SelectSeq(threads[w].emitted, LAMBDA e : e.sig = "found")
    IN  [k \in 1..Len(hits) |-> hits[k].path]

\* C16: when on_finished handles the completion of a run, the result list is
\* the sequence of the paths that run emitted via found, in emission order,
\* and the count shown is the number of matches the run emitted.
C16_ListIsRunsMatches ==
    [][(Len(queue) > 0 /\ Head(queue).sig = "finished" /\ deliver) =>
           LET w == Head(queue).run
           IN  /\ result_list = FoundSeq(w)
               /\ status_label' = "Fini. " \o ToString(Len(FoundSeq(w))) \o " résultats"]_vars

\* the roots of thread w that do not exist or cannot be listed, and the
\* subdirectories below its roots that cannot be listed
BadRoots(w) == {r \in Range(threads[w].roots) : r \notin DOMAIN tree}
BadDirs(w) == UNION {DirsOf(r) \ Listed(r) : r \in Range(threads[w].roots)}

\* C17: a root that does not exist and a directory that cannot be listed are
\* skipped and nothing else is: a thread inside the loop body is at a
\* directory that could be listed, and a run that was not cancelled has, when
\* it is over, emitted every match among the listable directories below all
\* its roots and the files in them, has emitted nothing from the skipped
\* ones, and has emitted finished.
C17_ErrorsSkipped ==
    \A w \in Threads :
        /\ threads[w].pc \in {"dirname", "filecheck", "filename", "count"} =>
               \E r \in Range(threads[w].roots) : dirpath(threads[w]) \in Listed(r)
        /\ (Returned(w) /\ threads[w].seen_at < 0) =>
               /\ FinishedAt(w) # {}
               /\ \A r \in Range(threads[w].roots) :
                      \A p \in Listed(r) \cup FilesOf(r) :
                          NameContains(threads[w].keyword, p) => TimesFound(w, p) >= 1
               /\ \A p \in FoundPaths(w) :
                      \E r \in Range(threads[w].roots) : p \in Listed(r) \cup FilesOf(r)

\* a run whose first root does not exist and whose second holds a directory
\* that cannot be listed is over, with the matches of the readable part
C17_Witness ==
    /\ Len(threads) = 1
    /\ threads[1].pc = "done" /\ threads[1].seen_at < 0
    /\ threads[1].roots[1] \in BadRoots(1)
    /\ BadDirs(1) # {}
    /\ FoundPaths(1) = {"/foo", "/mnt/Foo.txt"}

\* the positions in the root list of thread w whose tree holds p among the
\* directories that can be listed and the files in them
Covering(w, p) ==
    {i \in 1..Len(threads[w].roots) :
        p \in Listed(threads[w].roots[i]) \cup FilesOf(threads[w].roots[i])}

\* C18 as stated: within a run no path is emitted via found more than once,
\* whatever root list start_search has built.
C18_NoDuplicateFound ==
    \A w \in Threads : \A p \in FoundPaths(w) : TimesFound(w, p) <= 1

\* C18 amended: within a run a path is emitted at most once for each position
\* of the root list whose tree holds it, and exactly that often when the run
\* was not cancelled; so no path is emitted twice when no root is repeated or
\* lies inside another, and a path below a repeated or nested root is.
C18_OncePerCoveringRoot ==
    \A w \in Threads : \A p \in FoundPaths(w) :
        /\ TimesFound(w, p) <= Cardinality(Covering(w, p))
        /\ (Returned(w) /\ threads[w].seen_at < 0) =>
               TimesFound(w, p) = Cardinality(Covering(w, p))

\* the default root with the mount point /mnt appended: the file below /mnt
\* was emitted twice, the one outside it once
C18_Witness ==
    /\ Len(threads) = 1
    /\ threads[1].roots = <<"/", "/mnt">>
    /\ threads[1].pc = "done" /\ threads[1].seen_at < 0
    /\ TimesFound(1, "/mnt/Foo.txt") = 2
    /\ TimesFound(1, "/foo") = 1

\* C19: a stop request is never lost: while the cancellation flag is set and
\* a worker has not yet finished its run, no step clears the flag.
C19_StopNeverLost ==
    [][(stop_event /\ \E w \in Threads : ~Returned(w)) => stop_event']_vars

\* the signals thread w has emitted since the stop flag was set
AfterStop(w) ==
    SubSeq(threads[w].emitted, stop_mark[w] + 1, Len(threads[w].emitted))

\* C20: from the moment the stop flag is set, and while it stays set, a worker
\* that was running emits at most one more found and at most one more
\* progress, and nothing after its finished.
C20_BoundedCancellation ==
    \A w \in Threads :
        stop_mark[w] >= 0 =>
            LET a == AfterStop(w)
            IN  /\ Len(SelectSeq(a, LAMBDA e : e.sig = "found")) <= 1
                /\ Len(SelectSeq(a, LAMBDA e : e.sig = "progress")) <= 1
                /\ \A k \in 1..Len(a) : a[k].sig = "finished" => k = Len(a)

\* the flag was set between the check before the file of /b/b-49 and the
\* match of its name: the file and the 500th directory were still reported,
\* then the run ended
C20_Witness ==
    /\ Len(threads) = 1
    /\ stop_event /\ stop_mark[1] >= 0
    /\ threads[1].pc = "done"
    /\ AfterStop(1) = <<Signal(1, "found", "/b/b-49/b-49.txt", 0),
                        Signal(1, "progress", "", 500),
                        Signal(1, "finished", "", 0)>>

====
